---- MODULE Spec2Model ----
(***************************************************************************)
(* Model of omnipy: io_helper/file_ops.py (list_files_in_directory) and    *)
(* core/logger.py (setup_logger).                                          *)
(*                                                                         *)
(* Strings are sequences of code points, so that str.lower(), the string   *)
(* ordering used by list.sort, str.startswith and fnmatch are computed and *)
(* not assumed.                                                            *)
(***************************************************************************)
EXTENDS Integers, Sequences, FiniteSets, TLC

VARIABLES
    fsKind,      \* what the resolved dir_path names: "none", "file" or "dir"
    readable,    \* whether the directory may be opened for enumeration
    dir,         \* the directory's entries, in the order os.scandir yields them
    pc,          \* position of the running call of list_files_in_directory
    args,        \* the call's arguments
    seen,        \* what exists() and is_dir() observed in this call
    idx,         \* number of entries the for loop has consumed
    results,     \* the local list `results`
    handle,      \* the os.scandir iterator: "none", "open" or "closed"
    exc,         \* the exception the call raised, "none" otherwise
    log,         \* levels of the log records this call emitted
    configured,  \* the module global _LOGGER_CONFIGURED
    handlers,    \* logger name -> list of attached handlers
    level,       \* logger name -> level set by setLevel (0 = NOTSET)
    propagate,   \* logger name -> the logger's propagate attribute
    called,      \* logger names setup_logger has been called for
    setupExc     \* the exception the last setup_logger call raised

vars == <<fsKind, readable, dir, pc, args, seen, idx, results, handle, exc,
          log, configured, handlers, level, propagate, called, setupExc>>

fsVars == <<fsKind, readable, dir>>
callVars == <<pc, args, seen, idx, results, handle, exc, log>>
loggerVars == <<configured, handlers, level, propagate, called, setupExc>>

----------------------------------------------------------------------------
(* Bounds *)

MaxEntries == 3
MaxHandlers == 6

----------------------------------------------------------------------------
(* Logging levels (Python's logging module) *)

DEBUG == 10
INFO == 20
WARNING == 30
ERROR == 40

----------------------------------------------------------------------------
(* Strings as sequences of code points *)

\* ".a", "A", "a", "B"
FileNames == { <<46, 97>>, <<65>>, <<97>>, <<66>> }

\* "", "?", "[!a]", ".*"
Patterns == { <<>>, <<63>>, <<91, 33, 97, 93>>, <<46, 42>> }

\* the last component of the resolved dir_path
DirPathPart == <<100>>

\* str.lower() on one code point (ASCII letters)
LowerChar(c) == IF c >= 65 /\ c <= 90 THEN c + 32 ELSE c

\* str.lower()
Lower(s) == [i \in 1..Len(s) |-> LowerChar(s[i])]

\* Python's ordering of str: lexicographic by code point, a proper prefix first
RECURSIVE StrLess(_, _)
StrLess(s, t) ==
    IF t = <<>> THEN FALSE
    ELSE IF s = <<>> THEN TRUE
    ELSE IF s[1] # t[1] THEN s[1] < t[1]
    ELSE StrLess(Tail(s), Tail(t))

StrLeq(s, t) == s = t \/ StrLess(s, t)

\* name.startswith(".")
StartsWithDot(name) == Len(name) >= 1 /\ name[1] = 46

----------------------------------------------------------------------------
(* fnmatch.fnmatch(name, pattern) on POSIX: case-sensitive glob matching   *)
(* with '*', '?', '[seq]' and '[!seq]' (no ranges occur in Patterns)       *)

\* 1-based index of the ']' closing the class opened by pat[1] = '[', 0 if none
RECURSIVE ScanClose(_, _)
ScanClose(pat, j) ==
    IF j > Len(pat) THEN 0
    ELSE IF pat[j] = 93 THEN j
    ELSE ScanClose(pat, j + 1)

ClassEnd(pat) ==
    LET j1 == IF Len(pat) >= 2 /\ pat[2] = 33 THEN 3 ELSE 2
        j2 == IF j1 <= Len(pat) /\ pat[j1] = 93 THEN j1 + 1 ELSE j1
    IN  ScanClose(pat, j2)

InSeq(c, s) == \E i \in 1..Len(s) : s[i] = c

\* whether code point c is in the class whose text between the brackets is stuff
InClass(c, stuff) ==
    IF stuff = <<>> THEN FALSE
    ELSE IF stuff = <<33>> THEN TRUE
    ELSE IF stuff[1] = 33 THEN ~InSeq(c, Tail(stuff))
    ELSE InSeq(c, stuff)

RECURSIVE Fnmatch(_, _)
Fnmatch(name, pat) ==
    IF pat = <<>> THEN name = <<>>
    ELSE IF pat[1] = 42 THEN
        Fnmatch(name, Tail(pat)) \/ (name # <<>> /\ Fnmatch(Tail(name), pat))
    ELSE IF pat[1] = 63 THEN
        name # <<>> /\ Fnmatch(Tail(name), Tail(pat))
    ELSE IF pat[1] = 91 /\ ClassEnd(pat) # 0 THEN
        /\ name # <<>>
        /\ InClass(name[1], SubSeq(pat, 2, ClassEnd(pat) - 1))
        /\ Fnmatch(Tail(name), SubSeq(pat, ClassEnd(pat) + 1, Len(pat)))
    ELSE
        name # <<>> /\ name[1] = pat[1] /\ Fnmatch(Tail(name), Tail(pat))

----------------------------------------------------------------------------
(* The file system under dir_path *)

EntryKinds == {"file", "dir", "link"}

\* a directory entry: its name, its type (not following symbolic links) and
\* whether entry.is_file(follow_symlinks=False) raises OSError for it (the
\* failing entries enumerated are regular files: a failing entry of another
\* type is skipped exactly as that type is)
Entries ==
    {e \in [name : FileNames, kind : EntryKinds, statFails : BOOLEAN] :
        e.statFails => e.kind = "file"}

DistinctNames(d) == \A i, j \in 1..Len(d) : i # j => d[i].name # d[j].name

Directories ==
    UNION { {d \in [1..n -> Entries] : DistinctNames(d)} : n \in 0..MaxEntries }

EntrySet(d) == {d[i] : i \in 1..Len(d)}

----------------------------------------------------------------------------
(* list_files_in_directory: the loop body, the sort and the whole result   *)

\* pattern is None is hasPattern = FALSE; pattern is the glob otherwise
Args == [hasPattern : BOOLEAN, pattern : Patterns,
         show_hidden : BOOLEAN, return_paths : BOOLEAN]

CallArgs == {a \in Args : ~a.hasPattern => a.pattern = <<>>}

\* truthiness of the pattern argument: None and "" are both falsy
PatternTruthy(a) == a.hasPattern /\ a.pattern # <<>>

\* entry.is_file(follow_symlinks=False) returned True without raising
IsRegularFile(e) == ~e.statFails /\ e.kind = "file"

\* the element appended to results for an entry
StrItem(e) == [isPath |-> FALSE, parts |-> <<e.name>>]
PathItem(e) == [isPath |-> TRUE, parts |-> <<DirPathPart, e.name>>]

\* Path.name: the final path component; a str item is the name itself
ItemName(x) == x.parts[Len(x.parts)]

LoopBodyKeepsHidden(res, e, a) ==
    IF e.statFails THEN res
    ELSE IF e.kind # "file" THEN res
    ELSE IF PatternTruthy(a) /\ ~Fnmatch(e.name, a.pattern) THEN res
    ELSE IF a.return_paths THEN Append(res, PathItem(e))
    ELSE Append(res, StrItem(e))

\* one iteration of the for loop over the scandir iterator
LoopBody(res, e, a) ==
    IF e.statFails THEN res
    ELSE IF e.kind # "file" THEN res
    ELSE IF ~a.show_hidden /\ StartsWithDot(e.name) THEN res
    ELSE IF PatternTruthy(a) /\ ~Fnmatch(e.name, a.pattern) THEN res
    ELSE IF a.return_paths THEN Append(res, PathItem(e))
    ELSE Append(res, StrItem(e))

SortKeyCaseSensitive(x) == IF x.isPath THEN ItemName(x) ELSE x.parts[1]

SortKeyPathNotLowered(x) == IF x.isPath THEN ItemName(x) ELSE Lower(x.parts[1])

\* the sort key: x.name.lower() for a Path, x.lower() for a str
SortKey(x) == IF x.isPath THEN Lower(ItemName(x)) ELSE Lower(x.parts[1])

\* insert x into the sorted list s after every element whose key is <= its key
RECURSIVE InsertSorted(_, _)
InsertSorted(s, x) ==
    IF s = <<>> THEN <<x>>
    ELSE IF StrLess(SortKey(x), SortKey(s[1])) THEN <<x>> \o s
    ELSE <<s[1]>> \o InsertSorted(Tail(s), x)

\* list.sort(key=...): a stable sort, ascending by key
RECURSIVE SortStable(_)
SortStable(s) ==
    IF s = <<>> THEN <<>>
    ELSE InsertSorted(SortStable(SubSeq(s, 1, Len(s) - 1)), s[Len(s)])

\* the list the loop leaves in results after consuming the entries d in order
RECURSIVE Collect(_, _)
Collect(d, a) ==
    IF d = <<>> THEN <<>>
    ELSE LoopBody(Collect(SubSeq(d, 1, Len(d) - 1), a), d[Len(d)], a)

\* the value returned for a readable directory enumerated in the order d
ListFiles(d, a) == SortStable(Collect(d, a))

Names(res) == [i \in 1..Len(res) |-> ItemName(res[i])]
NameSetOf(res) == {ItemName(res[i]) : i \in 1..Len(res)}

----------------------------------------------------------------------------
(* core/logger.py *)

\* the logger file_ops.py obtains at import, setup_logger(__name__)
FileOpsLogger == "io_helper.file_ops"

LoggerNames == {"omnipy", FileOpsLogger}

Levels == {DEBUG, INFO}

\* log_file: None, a file that can be opened, a file that cannot
LogFiles == {"None", "app.log", "/missing/app.log"}

FileOpens(f) == f = "app.log"

\* a handler: its stream, its level, and the level its filter stays below
\* (0: no filter)
ConsoleHandlers(lvl) ==
    << [stream |-> "stdout", level |-> lvl, below |-> WARNING],
       [stream |-> "stderr", level |-> WARNING, below |-> 0] >>

FileHandler(lvl) == [stream |-> "file", level |-> lvl, below |-> 0]

\* handlers the call has attached by the time it reaches the FileHandler line
WithConsole(hs, lvl, use_console) ==
    IF use_console THEN hs \o ConsoleHandlers(lvl) ELSE hs

\* the early return: the logger is taken to be configured already
AlreadyConfigured(name) == handlers[name] # <<>> /\ configured

SetupLogger(name, lvl, log_file, use_console) ==
    /\ called' = called \cup {name}
    /\ IF AlreadyConfigured(name) THEN
           /\ setupExc' = "none"
           /\ UNCHANGED <<configured, handlers, level, propagate>>
       ELSE
           /\ Len(handlers[name]) + 3 <= MaxHandlers
           /\ level' = [level EXCEPT ![name] = lvl]
           /\ IF log_file # "None" /\ ~FileOpens(log_file) THEN
                  \* logging.FileHandler raises: the lines after it do not run
                  /\ handlers' = [handlers EXCEPT
                         ![name] = WithConsole(@, lvl, use_console)]
                  /\ setupExc' = "OSError"
                  /\ UNCHANGED <<configured, propagate>>
              ELSE
                  /\ handlers' = [handlers EXCEPT
                         ![name] = IF log_file # "None"
                                   THEN Append(WithConsole(@, lvl, use_console),
                                               FileHandler(lvl))
                                   ELSE WithConsole(@, lvl, use_console)]
                  /\ propagate' = [propagate EXCEPT ![name] = FALSE]
                  /\ configured' = TRUE
                  /\ setupExc' = "none"
    /\ UNCHANGED <<fsVars, callVars>>

SetupLoggerCall ==
    \E name \in LoggerNames, lvl \in Levels, f \in LogFiles, c \in BOOLEAN :
        SetupLogger(name, lvl, f, c)

\* Logger.isEnabledFor and Logger.callHandlers for the file_ops logger
Emits(lvl) ==
    /\ lvl >= level[FileOpsLogger]
    /\ \E i \in 1..Len(handlers[FileOpsLogger]) :
           LET h == handlers[FileOpsLogger][i]
           IN  lvl >= h.level /\ (h.below = 0 \/ lvl < h.below)

\* logger.error / logger.exception / logger.info
Emit(lvl) == IF Emits(lvl) THEN Append(log, lvl) ELSE log

----------------------------------------------------------------------------
(* list_files_in_directory, step by step; the file system may change       *)
(* between the checks and the enumeration                                  *)

Call(a) ==
    /\ pc = "idle"
    /\ args' = a
    /\ pc' = "check_exists"
    /\ seen' = <<"unset", "unset">>
    /\ idx' = 0
    /\ results' = <<>>
    /\ handle' = "none"
    /\ exc' = "none"
    /\ log' = <<>>
    /\ UNCHANGED <<fsVars, loggerVars>>

CallAny == \E a \in CallArgs : Call(a)

\* if not dir_path.exists(): log, raise FileNotFoundError
CheckExists ==
    /\ pc = "check_exists"
    /\ seen' = <<fsKind, "unset">>
    /\ IF fsKind = "none" THEN
           /\ log' = Emit(ERROR)
           /\ exc' = "FileNotFoundError"
           /\ pc' = "raised"
       ELSE
           /\ pc' = "check_is_dir"
           /\ UNCHANGED <<log, exc>>
    /\ UNCHANGED <<fsVars, args, idx, results, handle, loggerVars>>

CheckIsDirSkipped ==
    /\ pc = "check_is_dir"
    /\ seen' = <<seen[1], fsKind>>
    /\ pc' = "scandir"
    /\ results' = <<>>
    /\ UNCHANGED <<fsVars, args, idx, handle, log, exc, loggerVars>>

\* if not dir_path.is_dir(): log, raise ValueError
CheckIsDir ==
    /\ pc = "check_is_dir"
    /\ seen' = <<seen[1], fsKind>>
    /\ IF fsKind # "dir" THEN
           /\ log' = Emit(ERROR)
           /\ exc' = "ValueError"
           /\ pc' = "raised"
       ELSE
           /\ pc' = "scandir"
           /\ UNCHANGED <<log, exc>>
    /\ results' = <<>>
    /\ UNCHANGED <<fsVars, args, idx, handle, loggerVars>>

\* with os.scandir(dir_path) as it: the open may fail
OpenScandir ==
    /\ pc = "scandir"
    /\ IF fsKind = "none" THEN
           /\ exc' = "FileNotFoundError"
           /\ pc' = "raised"
           /\ UNCHANGED <<log, handle>>
       ELSE IF fsKind = "file" THEN
           /\ exc' = "NotADirectoryError"
           /\ pc' = "raised"
           /\ UNCHANGED <<log, handle>>
       ELSE IF ~readable THEN
           /\ log' = Emit(ERROR)
           /\ exc' = "PermissionError"
           /\ pc' = "raised"
           /\ UNCHANGED handle
       ELSE
           /\ handle' = "open"
           /\ pc' = "iterate"
           /\ UNCHANGED <<log, exc>>
    /\ idx' = 0
    /\ UNCHANGED <<fsVars, args, seen, results, loggerVars>>

IterEntryAbortsOnStatError ==
    /\ pc = "iterate"
    /\ idx < Len(dir)
    /\ idx' = idx + 1
    /\ IF dir[idx + 1].statFails THEN
           /\ handle' = "closed"
           /\ exc' = "OSError"
           /\ pc' = "raised"
           /\ UNCHANGED results
       ELSE
           /\ results' = LoopBody(results, dir[idx + 1], args)
           /\ UNCHANGED <<pc, handle, exc>>
    /\ UNCHANGED <<fsVars, args, seen, log, loggerVars>>

\* one pass through the body of `for entry in it`
IterEntry ==
    /\ pc = "iterate"
    /\ idx < Len(dir)
    /\ results' = LoopBody(results, dir[idx + 1], args)
    /\ idx' = idx + 1
    /\ UNCHANGED <<fsVars, pc, args, seen, handle, exc, log, loggerVars>>

\* the iterator is exhausted: the with block exits and closes it
IterEnd ==
    /\ pc = "iterate"
    /\ idx = Len(dir)
    /\ handle' = "closed"
    /\ pc' = "sort"
    /\ UNCHANGED <<fsVars, args, seen, idx, results, exc, log, loggerVars>>

IterErrorLeaksHandle(e) ==
    /\ pc = "iterate"
    /\ log' = IF e = "PermissionError" THEN Emit(ERROR) ELSE log
    /\ exc' = e
    /\ pc' = "raised"
    /\ UNCHANGED <<fsVars, args, seen, idx, results, handle, loggerVars>>

\* reading the next entry fails: the with block closes the iterator, and
\* only a PermissionError is caught, logged and re-raised
IterError(e) ==
    /\ pc = "iterate"
    /\ handle' = "closed"
    /\ log' = IF e = "PermissionError" THEN Emit(ERROR) ELSE log
    /\ exc' = e
    /\ pc' = "raised"
    /\ UNCHANGED <<fsVars, args, seen, idx, results, loggerVars>>

IterErrorAny == \E e \in {"PermissionError", "OSError"} : IterError(e)

\* results.sort(key=...); logger.info(...); return results
SortAndReturn ==
    /\ pc = "sort"
    /\ results' = SortStable(results)
    /\ log' = Emit(INFO)
    /\ pc' = "returned"
    /\ UNCHANGED <<fsVars, args, seen, idx, handle, exc, loggerVars>>

\* the caller has the returned list or the exception: the call's frame is gone
Finish ==
    /\ pc \in {"returned", "raised"}
    /\ pc' = "idle"
    /\ args' = [hasPattern |-> FALSE, pattern |-> <<>>,
                show_hidden |-> FALSE, return_paths |-> FALSE]
    /\ seen' = <<"unset", "unset">>
    /\ idx' = 0
    /\ results' = <<>>
    /\ handle' = "none"
    /\ exc' = "none"
    /\ log' = <<>>
    /\ UNCHANGED <<fsVars, loggerVars>>

\* the environment, between the checks and the opening of the directory
BetweenChecks == pc \in {"check_is_dir", "scandir"}

EnvRemove ==
    /\ BetweenChecks
    /\ fsKind # "none"
    /\ fsKind' = "none"
    /\ dir' = <<>>
    /\ readable' = TRUE
    /\ UNCHANGED <<callVars, loggerVars>>

EnvReplaceByFile ==
    /\ BetweenChecks
    /\ fsKind = "dir"
    /\ fsKind' = "file"
    /\ dir' = <<>>
    /\ readable' = TRUE
    /\ UNCHANGED <<callVars, loggerVars>>

EnvRevoke ==
    /\ BetweenChecks
    /\ fsKind = "dir"
    /\ readable
    /\ readable' = FALSE
    /\ UNCHANGED <<fsKind, dir, callVars, loggerVars>>

EnvUnlink ==
    /\ BetweenChecks
    /\ fsKind = "dir"
    /\ dir # <<>>
    /\ dir' = SubSeq(dir, 1, Len(dir) - 1)
    /\ UNCHANGED <<fsKind, readable, callVars, loggerVars>>

----------------------------------------------------------------------------
(* Specifications *)

FreshHandlers == [n \in LoggerNames |-> <<>>]
FreshLevel == [n \in LoggerNames |-> 0]
FreshPropagate == [n \in LoggerNames |-> TRUE]

FsInit ==
    /\ fsKind \in {"none", "file", "dir"}
    /\ readable \in BOOLEAN
    /\ dir \in Directories
    /\ fsKind # "dir" => dir = <<>> /\ readable

CallInit ==
    /\ pc = "idle"
    /\ args = [hasPattern |-> FALSE, pattern |-> <<>>,
               show_hidden |-> FALSE, return_paths |-> FALSE]
    /\ seen = <<"unset", "unset">>
    /\ idx = 0
    /\ results = <<>>
    /\ handle = "none"
    /\ exc = "none"
    /\ log = <<>>

\* file_ops.py has been imported: logger = setup_logger(__name__)
Init ==
    /\ FsInit
    /\ CallInit
    /\ configured = TRUE
    /\ handlers = [FreshHandlers EXCEPT ![FileOpsLogger] = ConsoleHandlers(INFO)]
    /\ level = [FreshLevel EXCEPT ![FileOpsLogger] = INFO]
    /\ propagate = [FreshPropagate EXCEPT ![FileOpsLogger] = FALSE]
    /\ called = {FileOpsLogger}
    /\ setupExc = "none"

Next ==
    \/ CallAny
    \/ CheckExists
    \/ CheckIsDir
    \/ OpenScandir
    \/ IterEntry
    \/ IterEnd
    \/ IterErrorAny
    \/ SortAndReturn
    \/ Finish
    \/ EnvRemove
    \/ EnvReplaceByFile
    \/ EnvRevoke
    \/ EnvUnlink

Spec == Init /\ [][Next]_vars

\* core/logger.py alone has been imported: nothing is configured yet
InitLogger ==
    /\ fsKind = "dir"
    /\ readable = TRUE
    /\ dir = <<>>
    /\ CallInit
    /\ configured = FALSE
    /\ handlers = FreshHandlers
    /\ level = FreshLevel
    /\ propagate = FreshPropagate
    /\ called = {}
    /\ setupExc = "none"

NextLogger == SetupLoggerCall

SpecLogger == InitLogger /\ [][NextLogger]_vars

----------------------------------------------------------------------------
(* Properties *)

\* the entries of the enumerated directory whose names the call is to return
Visible(e) == args.show_hidden \/ ~StartsWithDot(e.name)

Accepted(e) == ~PatternTruthy(args) \/ Fnmatch(e.name, args.pattern)

\* C1 (as stated): without a pattern the call returns exactly the names of
\* the directory's regular files (never a subdirectory or a symbolic link),
\* without the names starting with '.' unless show_hidden is true.
C1_ExactlyRegularFiles ==
    (pc = "returned" /\ ~args.hasPattern) =>
        NameSetOf(results) =
            {e.name : e \in {f \in EntrySet(dir) : f.kind = "file" /\ Visible(f)}}

\* C1 (amended): without a pattern the call returns, once each, exactly the
\* names of the directory's regular files whose type check did not fail,
\* without the names starting with '.' unless show_hidden is true; the result
\* for show_hidden false is a subset of the result for show_hidden true.
C1_RegularFilesTypeKnown ==
    (pc = "returned" /\ ~args.hasPattern) =>
        /\ NameSetOf(results) =
               {e.name : e \in {f \in EntrySet(dir) : IsRegularFile(f) /\ Visible(f)}}
        /\ \A i, j \in 1..Len(results) : i # j => results[i] # results[j]
        /\ ~args.show_hidden =>
               NameSetOf(results) \subseteq
                   NameSetOf(ListFiles(dir, [args EXCEPT !.show_hidden = TRUE]))

\* a hidden file, a subdirectory or link, and a returned file in one listing
C1_Witness ==
    /\ pc = "returned"
    /\ ~args.hasPattern
    /\ ~args.show_hidden
    /\ Len(results) = 1
    /\ \E e \in EntrySet(dir) : IsRegularFile(e) /\ StartsWithDot(e.name)
    /\ \E e \in EntrySet(dir) : e.kind # "file"

\* C2: a path that does not exist raises FileNotFoundError, a path that is a
\* regular file raises ValueError; in both cases the directory is never
\* opened and no list is returned.
C2_ChecksRaiseBeforeEnumeration ==
    /\ seen[1] = "none" =>
           /\ pc = "raised"
           /\ exc = "FileNotFoundError"
           /\ handle = "none"
           /\ results = <<>>
    /\ (seen[1] = "file" /\ seen[2] = "file") =>
           /\ pc = "raised"
           /\ exc = "ValueError"
           /\ handle = "none"
           /\ results = <<>>

C2_Witness ==
    /\ pc = "raised"
    /\ seen = <<"file", "file">>
    /\ exc = "ValueError"
    /\ log = <<ERROR>>

\* C3: every returned list is ascending by lower-cased file name.
C3_SortedCaseInsensitive ==
    pc = "returned" =>
        \A i, j \in 1..Len(results) :
            i < j => StrLeq(Lower(ItemName(results[i])), Lower(ItemName(results[j])))

\* a returned list whose order differs from the order of the raw code points
C3_Witness ==
    /\ pc = "returned"
    /\ \E i, j \in 1..Len(results) :
           i < j /\ StrLess(ItemName(results[j]), ItemName(results[i]))

C5_PatternFilters ==
    (pc = "returned" /\ args.hasPattern) =>
        LET all == ListFiles(dir, [args EXCEPT !.hasPattern = FALSE,
                                               !.pattern = <<>>])
        IN  /\ \A i \in 1..Len(results) :
                   Fnmatch(ItemName(results[i]), args.pattern)
            /\ \A i \in 1..Len(all) :
                   Fnmatch(ItemName(all[i]), args.pattern) =>
                       ItemName(all[i]) \in NameSetOf(results)
            /\ NameSetOf(results) \subseteq NameSetOf(all)

\* C6: an entry whose type check raises OSError is skipped, the enumeration
\* goes on, and the call returns every other qualifying entry.
C6_StatFailureSkipped ==
    /\ [][(pc = "iterate" /\ idx' = idx + 1 /\ dir[idx + 1].statFails) =>
              /\ pc' = "iterate"
              /\ handle' = "open"
              /\ exc' = "none"
              /\ results' = results]_vars
    /\ [](pc = "returned" =>
              \A e \in EntrySet(dir) :
                  /\ e.statFails => e.name \notin NameSetOf(results)
                  /\ (IsRegularFile(e) /\ Visible(e) /\ Accepted(e)) =>
                         e.name \in NameSetOf(results))

\* a listing returned from a directory holding an entry whose check failed
C6_Witness ==
    /\ pc = "returned"
    /\ Len(results) >= 1
    /\ \E e \in EntrySet(dir) : e.statFails

\* C7 (as stated): a call that raises FileNotFoundError, ValueError or
\* PermissionError has emitted an error-level log record first.
C7_ErrorsLogged ==
    (pc = "raised" /\
     exc \in {"FileNotFoundError", "ValueError", "PermissionError"}) =>
        \E i \in 1..Len(log) : log[i] = ERROR

\* C8: the directory iterator is closed whenever the call has returned or
\* raised, and none is held before the directory is opened.
C8_HandleReleased ==
    /\ pc \in {"returned", "raised"} => handle # "open"
    /\ pc \in {"sort", "returned"} => handle = "closed"
    /\ pc \in {"idle", "check_exists", "check_is_dir", "scandir"} =>
           handle = "none"
    /\ (pc = "raised" /\ exc \in {"ValueError", "NotADirectoryError"}) =>
           handle = "none"

\* an error while enumerating, after entries were read: the iterator is closed
C8_Witness ==
    /\ pc = "raised"
    /\ exc = "OSError"
    /\ idx >= 1
    /\ handle = "closed"

\* C9 (as stated): only the first setup_logger call for a logger sets its
\* level and attaches handlers, every later call leaves both unchanged, and
\* no logger carries two handlers on the same stream.
C9_ConfiguredOnce ==
    /\ [][\A n \in called :
              handlers'[n] = handlers[n] /\ level'[n] = level[n]]_vars
    /\ [](\A n \in LoggerNames :
              \A i, j \in 1..Len(handlers[n]) :
                  i # j => handlers[n][i].stream # handlers[n][j].stream)

\* C10 (as stated): the returned list is the same for every order in which
\* the directory's entries are enumerated.
C10_OrderIndependent ==
    pc = "returned" =>
        \A r \in [1..Len(dir) -> EntrySet(dir)] :
            EntrySet(r) = EntrySet(dir) => ListFiles(r, args) = results

====
